---- MODULE Spec2Model ----
(***************************************************************************)
(* Model of streamlit_app.py, the LAZ -> CSV/XYZ converter.                *)
(*                                                                         *)
(* A Streamlit script is re-executed from its first line to its last on    *)
(* every user interaction.  One action of this model is therefore one user *)
(* interaction followed by one complete pass of the script: the counter    *)
(* block, the upload block and the URL block, in that order.               *)
(*                                                                         *)
(* Text is modelled by TLA+ strings, with the Python string operations     *)
(* (startswith, in, replace, lower, slicing, join) written out.            *)
(* Coordinates are floats that are whole multiples of 1/16; they are       *)
(* stored as the integer number of sixteenths, so that repr() and the      *)
(* '.3f' format can be computed exactly.                                   *)
(*                                                                         *)
(* Not modelled: the auth widgets of lines 98-109.  They only choose the   *)
(* headers/auth arguments of the GET request; the reply of the server to   *)
(* the request as sent is the value EnterUrl draws.                        *)
(***************************************************************************)
EXTENDS Integers, Sequences, FiniteSets, TLC

VARIABLES
    counter,        \* st.session_state.counter
    shown,          \* the counter value written to the page in the last pass
    presses,        \* history: number of "Increment counter" presses so far
    uploaded_file,  \* value of the file_uploader widget: NoFile or a file
    output_format,  \* value of the radio widget
    laz_url,        \* value of the URL text_input
    remote,         \* what the server answers to a GET of laz_url
    lazBackend,     \* whether laspy found a LAZ backend when it was imported
    pressed,        \* the button whose press triggered the last pass
    up,             \* what the upload block did in the last pass
    ur              \* what the URL block did in the last pass

vars == <<counter, shown, presses, uploaded_file, output_format, laz_url,
          remote, lazBackend, pressed, up, ur>>

-----------------------------------------------------------------------------
(* Bounds of the model *)

\* largest number of points of a decoded file
MaxPts == 2

\* largest number of presses of the increment button in one session
MaxPresses == 2

-----------------------------------------------------------------------------
(* Python string operations *)

\* s[:n]
Take(s, n) == SubSeq(s, 1, IF Len(s) < n THEN Len(s) ELSE n)

\* s[n:]
Drop(s, n) == SubSeq(s, n + 1, Len(s))

\* s.startswith(p)
StartsWith(s, p) == Len(s) >= Len(p) /\ SubSeq(s, 1, Len(p)) = p

\* p in s
Contains(s, p) ==
    \E i \in 1..(Len(s) - Len(p) + 1) : SubSeq(s, i, i + Len(p) - 1) = p

LowerTab ==
    [A |-> "a", C |-> "c", D |-> "d", E |-> "e", F |-> "f", H |-> "h",
     L |-> "l", M |-> "m", O |-> "o", P |-> "p", S |-> "s", T |-> "t",
     X |-> "x", Y |-> "y", Z |-> "z"]

LowerChar(c) == IF c \in DOMAIN LowerTab THEN LowerTab[c] ELSE c

\* s.lower()
RECURSIVE Lower(_)
Lower(s) ==
    IF Len(s) = 0 THEN s
    ELSE LowerChar(SubSeq(s, 1, 1)) \o Lower(Drop(s, 1))

\* s.replace(old, new): every non-overlapping occurrence, leftmost first
RECURSIVE Replace(_, _, _)
Replace(s, old, new) ==
    IF Len(s) < Len(old) THEN s
    ELSE IF StartsWith(s, old)
         THEN new \o Replace(Drop(s, Len(old)), old, new)
         ELSE SubSeq(s, 1, 1) \o Replace(Drop(s, 1), old, new)

\* sep.join(lines)
RECURSIVE Join(_, _)
Join(lines, sep) ==
    IF Len(lines) = 0 THEN ""
    ELSE IF Len(lines) = 1 THEN lines[1]
    ELSE lines[1] \o sep \o Join(Tail(lines), sep)

-----------------------------------------------------------------------------
(* Number formatting.  v is a float given in sixteenths, v >= 0. *)

Pad2(n) == IF n < 10 THEN "0" \o ToString(n) ELSE ToString(n)
Pad3(n) == IF n < 100 THEN "0" \o Pad2(n) ELSE ToString(n)
Pad4(n) == IF n < 1000 THEN "0" \o Pad3(n) ELSE ToString(n)

\* repr(float): the shortest decimal that reads back; exact for sixteenths,
\* with at least one digit after the point.  1/16 = 0.0625.
Repr(v) ==
    LET f == (v % 16) * 625
        frac == IF f = 0 THEN "0"
                ELSE IF f % 1000 = 0 THEN ToString(f \div 1000)
                ELSE IF f % 100 = 0 THEN Pad2(f \div 100)
                ELSE IF f % 10 = 0 THEN Pad3(f \div 10)
                ELSE Pad4(f)
    IN  ToString(v \div 16) \o "." \o frac

\* f"{v:.3f}": the exact value rounded to thousandths, ties to even
Fmt3(v) ==
    LET q == (v * 125) \div 2
        m == IF (v * 125) % 2 = 0 \/ q % 2 = 0 THEN q ELSE q + 1
    IN  ToString(m \div 1000) \o "." \o Pad3(m % 1000)

-----------------------------------------------------------------------------
(* The files the user and the server can supply.                           *)
(*                                                                         *)
(* The bytes of a file are described by what the script looks at: the      *)
(* first bytes (head) and what laspy makes of them.  kind "laz" is a       *)
(* well-formed compressed file whose X, Y and Z records have lx, ly and lz *)
(* entries; kind "bad" is a file laspy rejects with the error text err.    *)

NoFile == [name |-> ""]
NoDownload == [label |-> ""]
NoRemote == [raises |-> "", status |-> 0]

\* i-th coordinate of the stored point records.  Series "A" is not sorted and
\* has no repeated point; every point of series "B" is the same point.
CoordX(series, i) == IF series = "A" THEN (i * 25) % 48 ELSE 9
CoordY(series, i) == IF series = "A" THEN 40 - ((i * 7) % 16) ELSE 3
CoordZ(series, i) == IF series = "A" THEN (i * 3) % 16 ELSE 1

\* the lengths of the three records: all n, or one of them one short
Shapes ==
    {<<n, n, n>> : n \in 0..MaxPts}
    \cup {<<n - 1, n, n>> : n \in 1..MaxPts}
    \cup {<<n, n - 1, n>> : n \in 1..MaxPts}
    \cup {<<n, n, n - 1>> : n \in 1..MaxPts}

LazData(series, shape) ==
    [head |-> "LASF", kind |-> "laz", err |-> "", series |-> series,
     lx |-> shape[1], ly |-> shape[2], lz |-> shape[3]]

BadData(head, err) ==
    [head |-> head, kind |-> "bad", err |-> err, series |-> "A",
     lx |-> 0, ly |-> 0, lz |-> 0]

\* error texts of a decoder that rejects the bytes
DecoderErrors ==
    {"Invalid file signature",
     "cannot decompress chunk table",
     "LazBackend.Laszip is not available",
     "lazbackend missing"}

Datas ==
    {LazData("A", sh) : sh \in Shapes}
    \cup {LazData("B", <<MaxPts, MaxPts, MaxPts>>)}
    \cup {BadData("LASF", e) : e \in DecoderErrors}

DefaultData == LazData("A", <<MaxPts, MaxPts, MaxPts>>)

\* names the uploader accepts (type=["laz"])
Names == {"scan.laz", "scan.laz.laz", "my.lazy.laz"}

Files ==
    {[name |-> n, data |-> DefaultData] : n \in Names}
    \cup {[name |-> "scan.laz", data |-> d] : d \in Datas}

Formats == {"CSV", "XYZ"}

\* first bytes of bodies that are not point data
Heads == {"<html><bo", "<HTML>", "<!DOCTYPE h", "<?xml ver", "<Html lang",
          " <html>", "<ht", ""}

ContentTypes == {"application/octet-stream", "text/html; charset=utf-8",
                 "Text/HTML", ""}

Response(status, reason, ct, data) ==
    [raises |-> "", status |-> status, reason |-> reason, ct |-> ct,
     data |-> data]

\* what a GET of the URL can end in: an exception of requests (never an
\* HTTPError: only Response.raise_for_status raises it, and the script does
\* not call it), or a response
Remotes ==
    {[raises |-> "Connection refused", status |-> 0, reason |-> "",
      ct |-> "", data |-> DefaultData]}
    \cup {Response(st[1], st[2], "text/html; charset=utf-8",
                   BadData("<html><bo", "Invalid file signature")) :
            st \in {<<401, "Unauthorized">>, <<404, "Not Found">>,
                    <<500, "Internal Server Error">>}}
    \cup {Response(204, "No Content", "", BadData("", "Invalid file signature"))}
    \cup {Response(206, "Partial Content", "application/octet-stream", DefaultData)}
    \cup {Response(200, "OK", "application/octet-stream",
                   BadData(h, "Invalid file signature")) : h \in Heads}
    \cup {Response(200, "OK", ct, DefaultData) : ct \in ContentTypes}
    \cup {Response(200, "OK", "application/octet-stream", d) : d \in Datas}

-----------------------------------------------------------------------------
(* The decoder and the exporters *)

Raise(type, text) == [ok |-> FALSE, type |-> type, text |-> text]

\* laspy.read(io.BytesIO(bytes)) followed by np.atleast_1d(np.asarray(las.x))
\* and the same for y and z: three 1-D arrays, or an exception
laspy_read(data, backend) ==
    IF data.kind = "bad" THEN Raise("LaspyException", data.err)
    ELSE IF ~backend
         THEN Raise("LaspyException",
                    "No LazBackend selected, cannot decompress data")
    ELSE [ok |-> TRUE,
          x |-> [i \in 1..data.lx |-> CoordX(data.series, i)],
          y |-> [i \in 1..data.ly |-> CoordY(data.series, i)],
          z |-> [i \in 1..data.lz |-> CoordZ(data.series, i)]]
\* a variant that compares two of the three arrays
SameLengthsXY(x, y, z) == Len(x) = Len(y)

\* len(x) == len(y) == len(z)
SameLengths(x, y, z) == Len(x) = Len(y) /\ Len(y) = Len(z)
\* the rows with a run of equal rows written once
RECURSIVE CsvRowsUnique(_, _, _)
CsvRowsUnique(x, y, z) ==
    IF Len(x) = 0 THEN ""
    ELSE IF Len(x) > 1 /\ x[1] = x[2] /\ y[1] = y[2] /\ z[1] = z[2]
    THEN CsvRowsUnique(Tail(x), Tail(y), Tail(z))
    ELSE Repr(x[1]) \o "," \o Repr(y[1]) \o "," \o Repr(z[1]) \o "\n"
         \o CsvRowsUnique(Tail(x), Tail(y), Tail(z))

\* pd.DataFrame({"X": x, "Y": y, "Z": z}).to_csv(index=False)
RECURSIVE CsvRows(_, _, _)
CsvRows(x, y, z) ==
    IF Len(x) = 0 THEN ""
    ELSE Repr(x[1]) \o "," \o Repr(y[1]) \o "," \o Repr(z[1]) \o "\n"
         \o CsvRows(Tail(x), Tail(y), Tail(z))

\* a variant of to_csv that drops repeated rows
to_csv_unique(x, y, z) == "X,Y,Z\n" \o CsvRowsUnique(x, y, z)

to_csv(x, y, z) == "X,Y,Z\n" \o CsvRows(x, y, z)

\* [f"{a:.3f} {b:.3f} {c:.3f}" for a, b, c in np.column_stack((x, y, z))]
XyzLines(x, y, z) ==
    [i \in 1..Len(x) |-> Fmt3(x[i]) \o " " \o Fmt3(y[i]) \o " " \o Fmt3(z[i])]

to_xyz(x, y, z) == Join(XyzLines(x, y, z), "\n")

\* the if/else on output_format: the arguments of st.download_button.
\* pd.DataFrame and np.column_stack raise ValueError on arrays of unequal
\* length.
Export(fmt, x, y, z, csv_name, xyz_name) ==
    IF fmt = "CSV"
    THEN IF ~(Len(x) = Len(y) /\ Len(y) = Len(z))
         THEN Raise("ValueError", "All arrays must be of the same length")
         ELSE [ok |-> TRUE, label |-> "Download CSV file",
               data |-> to_csv(x, y, z), file_name |-> csv_name,
               mime |-> "text/csv"]
    ELSE IF ~(Len(x) = Len(y) /\ Len(y) = Len(z))
         THEN Raise("ValueError",
                    "all the input array dimensions must match exactly")
         ELSE [ok |-> TRUE, label |-> "Download XYZ file",
               data |-> to_xyz(x, y, z), file_name |-> xyz_name,
               mime |-> "text/plain"]
\* a variant in which a clause catches the named type only
CatchesExact(clause, type) == type = clause

\* except T: does the clause catch an exception of this type?  Every type the
\* try blocks raise derives from Exception; none derives from HTTPError.
Catches(clause, type) ==
    IF clause = "Exception" THEN TRUE ELSE type = clause

Msg(w, text) == [w |-> w, text |-> text]

-----------------------------------------------------------------------------
(* The counter block, lines 23-29 *)
\* a variant that counts the press of any button
CounterAfterAnyButton(value, trigger) ==
    IF trigger # "none" THEN value + 1 ELSE value

\* if st.button("Increment counter"): st.session_state.counter += 1
CounterAfter(value, trigger) ==
    IF trigger = "increment" THEN value + 1 ELSE value

-----------------------------------------------------------------------------
(* The upload block, lines 31-92 *)

\* the body of the try statement, lines 33-67: the messages shown, and either
\* the download button or the exception that ended it
UploadTry(file, fmt, backend) ==
    LET las == laspy_read(file.data, backend)
    IN  IF ~las.ok
        THEN [ok |-> FALSE, msgs |-> <<>>, type |-> las.type, text |-> las.text]
        ELSE IF ~SameLengths(las.x, las.y, las.z)
        THEN [ok |-> FALSE, msgs |-> <<>>, type |-> "ValueError",
              text |-> "Coordinate arrays have mismatched lengths"]
        ELSE LET shownMsgs ==
                     <<Msg("success", "Loaded " \o ToString(Len(las.x))
                                      \o " points successfully")>>
                 e == Export(fmt, las.x, las.y, las.z,
                             Replace(file.name, ".laz", ".csv"),
                             Replace(file.name, ".laz", ".xyz"))
             IN  IF e.ok
                 THEN [ok |-> TRUE, msgs |-> shownMsgs, download |-> e]
                 ELSE [ok |-> FALSE, msgs |-> shownMsgs, type |-> e.type,
                       text |-> e.text]

\* line 72: the test on str(e)
BackendMissing(msg) ==
    \/ Contains(msg, "No LazBackend")
    \/ Contains(msg, "cannot decompress")
    \/ Contains(msg, "LazBackend")
\* a variant that installs as soon as the backend is found missing
InstallAlways(trigger) == TRUE

\* line 79: if st.button("Install lazrs now") -- true in the pass that the
\* press of the button triggered
InstallPressed(trigger) == trigger = "install"

\* lines 80-87: pip is run once, and its outcome reported
InstallMsgs(pip) ==
    IF pip = "ok"
    THEN <<Msg("success", "lazrs installed. Please restart the app (streamlit run streamlit_app.py).")>>
    ELSE <<Msg("error", "Installation failed: " \o pip),
           Msg("write", "Run the install command in your terminal if this fails.")>>

\* the except clause, lines 69-89
UploadExcept(t, trigger, pip) ==
    IF ~Catches("Exception", t.type)
    THEN [decoded |-> TRUE, msgs |-> t.msgs, download |-> NoDownload,
          button |-> FALSE, installs |-> 0, escaped |-> t.type]
    ELSE IF BackendMissing(t.text)
    THEN LET run == InstallPressed(trigger)
         IN  [decoded |-> TRUE,
              msgs |-> t.msgs
                       \o <<Msg("error", "LAZ backend not available - Streamlit can't decompress .laz data."),
                            Msg("write", "Install a LAZ backend such as lazrs (recommended) or laszip.")>>
                       \o (IF run THEN InstallMsgs(pip) ELSE <<>>),
              download |-> NoDownload, button |-> TRUE,
              installs |-> IF run THEN 1 ELSE 0, escaped |-> ""]
    ELSE [decoded |-> TRUE,
          msgs |-> t.msgs \o <<Msg("error", "Error converting file: " \o t.text)>>,
          download |-> NoDownload, button |-> FALSE, installs |-> 0,
          escaped |-> ""]

UploadBlock(file, fmt, backend, trigger, pip) ==
    IF file = NoFile
    THEN [decoded |-> FALSE,
          msgs |-> <<Msg("info", "Please upload a .laz file to start.")>>,
          download |-> NoDownload, button |-> FALSE, installs |-> 0,
          escaped |-> ""]
    ELSE LET t == UploadTry(file, fmt, backend)
         IN  IF t.ok
             THEN [decoded |-> TRUE, msgs |-> t.msgs, download |-> t.download,
                   button |-> FALSE, installs |-> 0, escaped |-> ""]
             ELSE UploadExcept(t, trigger, pip)

-----------------------------------------------------------------------------
(* The URL block, lines 94-173 *)
\* a variant that treats only the 4xx and 5xx codes as errors
StatusIsErrorFrom400(status) == status >= 400

\* line 115: if r.status_code != 200
StatusIsError(status) == status # 200
\* a variant that compares the first bytes without lower-casing them
LooksLikeHtmlCased(head, content_type_header) ==
    LET prefix == Take(head, 8)
        content_type == Lower(content_type_header)
    IN  \/ StartsWith(prefix, "<!do")
        \/ StartsWith(prefix, "<html")
        \/ StartsWith(prefix, "<?xml")
        \/ Contains(content_type, "html")

\* lines 122-126: the test on the first 8 bytes and on the content-type
LooksLikeHtml(head, content_type_header) ==
    LET prefix == Lower(Take(head, 8))
        content_type == Lower(content_type_header)
    IN  \/ StartsWith(prefix, "<!do")
        \/ StartsWith(prefix, "<html")
        \/ StartsWith(prefix, "<?xml")
        \/ Contains(content_type, "html")

\* the body of the try statement, lines 112-163
UrlTry(r, fmt, backend) ==
    IF r.raises # ""
    THEN [ok |-> FALSE, decoded |-> FALSE, msgs |-> <<>>,
          type |-> "ConnectionError", text |-> r.raises]
    ELSE IF StatusIsError(r.status)
    THEN [ok |-> FALSE, decoded |-> FALSE,
          msgs |-> <<Msg("error", "HTTP " \o ToString(r.status) \o ": " \o r.reason),
                     Msg("write", Take(r.data.head, 1000))>>,
          type |-> "RuntimeError", text |-> "HTTP " \o ToString(r.status)]
    ELSE IF LooksLikeHtml(r.data.head, r.ct)
    THEN [ok |-> FALSE, decoded |-> FALSE,
          msgs |-> <<Msg("error", "URL returned HTML (likely an error/redirect page) instead of a .laz file."),
                     Msg("write", Take(r.data.head, 500))>>,
          type |-> "RuntimeError", text |-> "URL returned HTML"]
    ELSE LET las == laspy_read(r.data, backend)
         IN  IF ~las.ok
             THEN [ok |-> FALSE, decoded |-> TRUE, msgs |-> <<>>,
                   type |-> las.type, text |-> las.text]
             ELSE IF ~SameLengths(las.x, las.y, las.z)
             THEN [ok |-> FALSE, decoded |-> TRUE, msgs |-> <<>>,
                   type |-> "ValueError",
                   text |-> "Coordinate arrays have mismatched lengths"]
             ELSE LET shownMsgs ==
                          <<Msg("success", "Downloaded and loaded "
                                  \o ToString(Len(las.x)) \o " points")>>
                      e == Export(fmt, las.x, las.y, las.z,
                                  "downloaded_file.csv", "downloaded_file.xyz")
                  IN  IF e.ok
                      THEN [ok |-> TRUE, decoded |-> TRUE, msgs |-> shownMsgs,
                            download |-> e]
                      ELSE [ok |-> FALSE, decoded |-> TRUE, msgs |-> shownMsgs,
                            type |-> e.type, text |-> e.text]

\* the except clauses, lines 165-173, tried in order
UrlExcept(t, r) ==
    IF Catches("HTTPError", t.type)
    THEN [gets |-> 1, decoded |-> t.decoded,
          msgs |-> t.msgs \o
                   (IF r.status = 401
                    THEN <<Msg("error", "401 Unauthorized: the URL requires credentials or a presigned URL."),
                           Msg("info", "Use a presigned URL (S3) or provide token/username+password above.")>>
                    ELSE <<Msg("error", "HTTP error: " \o ToString(r.status) \o " " \o r.reason)>>),
          download |-> NoDownload, escaped |-> ""]
    ELSE IF Catches("Exception", t.type)
    THEN [gets |-> 1, decoded |-> t.decoded,
          msgs |-> t.msgs \o
                   <<Msg("error", "Failed to fetch/parse URL: " \o t.text),
                     Msg("info", "Ensure the URL points directly to the .laz file (use presigned S3 URL, add ?dl=1 for Dropbox, or enable public GET).")>>,
          download |-> NoDownload, escaped |-> ""]
    ELSE [gets |-> 1, decoded |-> t.decoded, msgs |-> t.msgs,
          download |-> NoDownload, escaped |-> t.type]

\* the block is skipped when the text input is empty (line 97)
UrlIdle ==
    [gets |-> 0, decoded |-> FALSE, msgs |-> <<>>, download |-> NoDownload,
     escaped |-> ""]

UrlBlock(url, r, fmt, backend) ==
    IF url = "" THEN UrlIdle
    ELSE LET t == UrlTry(r, fmt, backend)
         IN  IF t.ok
             THEN [gets |-> 1, decoded |-> TRUE, msgs |-> t.msgs,
                   download |-> t.download, escaped |-> ""]
             ELSE UrlExcept(t, r)

-----------------------------------------------------------------------------
(* One pass of the script *)

\* The script from line 17 to line 173 with the given widget values; trigger
\* is the button whose press started the pass ("none" for any other widget)
\* and pip is how the pip command ends if the pass runs it.  An exception
\* that leaves the upload block ends the pass before the URL block.
Pass(trigger, file, fmt, url, r, pip) ==
    LET u == UploadBlock(file, fmt, lazBackend, trigger, pip)
    IN  /\ counter' = CounterAfter(counter, trigger)
        /\ shown' = counter'
        /\ pressed' = trigger
        /\ up' = u
        /\ ur' = IF u.escaped # "" THEN UrlIdle
                 ELSE UrlBlock(url, r, fmt, lazBackend)

PipOutcomes == {"ok", "Command pip install lazrs returned non-zero exit status 1."}

Init ==
    /\ counter = 0
    /\ shown = 0
    /\ presses = 0
    /\ uploaded_file = NoFile
    /\ output_format = "CSV"
    /\ laz_url = ""
    /\ remote = NoRemote
    /\ lazBackend \in BOOLEAN
    /\ pressed = "none"
    /\ up = UploadBlock(NoFile, "CSV", lazBackend, "none", "ok")
    /\ ur = UrlIdle

\* the user selects a file in the empty uploader (a file is replaced by
\* removing it and selecting another: a pass depends on the widget values and
\* the trigger only, so replacing it in one step reaches the same states)
UploadFile(f) ==
    /\ uploaded_file = NoFile
    /\ uploaded_file' = f
    /\ Pass("none", f, output_format, laz_url, remote, "ok")
    /\ UNCHANGED <<presses, output_format, laz_url, remote, lazBackend>>

\* the user removes the file from the uploader
RemoveFile ==
    /\ uploaded_file # NoFile
    /\ uploaded_file' = NoFile
    /\ Pass("none", NoFile, output_format, laz_url, remote, "ok")
    /\ UNCHANGED <<presses, output_format, laz_url, remote, lazBackend>>

\* the user picks the other output format
ChooseFormat(fmt) ==
    /\ fmt # output_format
    /\ output_format' = fmt
    /\ Pass("none", uploaded_file, fmt, laz_url, remote, "ok")
    /\ UNCHANGED <<presses, uploaded_file, laz_url, remote, lazBackend>>

\* the user presses "Increment counter"
PressIncrement ==
    /\ presses < MaxPresses
    /\ presses' = presses + 1
    /\ Pass("increment", uploaded_file, output_format, laz_url, remote, "ok")
    /\ UNCHANGED <<uploaded_file, output_format, laz_url, remote, lazBackend>>

\* the user presses "Install lazrs now", which the last pass rendered.
\* laspy looked for its backends when it was imported, so a successful
\* install changes nothing until the app is restarted (the message says so).
PressInstall(pip) ==
    /\ up.button
    /\ Pass("install", uploaded_file, output_format, laz_url, remote, pip)
    /\ UNCHANGED <<presses, uploaded_file, output_format, laz_url, remote,
                   lazBackend>>

\* the user types a URL into the empty field, to which the server answers r
EnterUrl(r) ==
    /\ laz_url = ""
    /\ laz_url' = "https://example.org/scan.laz"
    /\ remote' = r
    /\ Pass("none", uploaded_file, output_format, laz_url', r, "ok")
    /\ UNCHANGED <<presses, uploaded_file, output_format, lazBackend>>

\* the user empties the URL field
ClearUrl ==
    /\ laz_url # ""
    /\ laz_url' = ""
    /\ remote' = NoRemote
    /\ Pass("none", uploaded_file, output_format, "", NoRemote, "ok")
    /\ UNCHANGED <<presses, uploaded_file, output_format, lazBackend>>

Next ==
    \/ \E f \in Files : UploadFile(f)
    \/ RemoveFile
    \/ \E fmt \in Formats : ChooseFormat(fmt)
    \/ PressIncrement
    \/ \E pip \in PipOutcomes : PressInstall(pip)
    \/ \E r \in Remotes : EnterUrl(r)
    \/ ClearUrl

Spec == Init /\ [][Next]_vars

-----------------------------------------------------------------------------
(* Vocabulary of the properties *)

\* the block showed a message of widget kind w whose text contains part
Showed(block, w, part) ==
    \E i \in 1..Len(block.msgs) :
        block.msgs[i].w = w /\ Contains(block.msgs[i].text, part)

Offers(block) == block.download # NoDownload

\* the pass reached the URL block and the GET returned a response
Fetched == laz_url # "" /\ ur.gets = 1 /\ remote.raises = ""

\* what the decoder makes of the bytes of each source
UploadLas == laspy_read(uploaded_file.data, lazBackend)
UrlLas == laspy_read(remote.data, lazBackend)

EqualLengths(las) == Len(las.x) = Len(las.y) /\ Len(las.y) = Len(las.z)

\* the text split at every occurrence of the one-character separator
RECURSIVE SplitAt(_, _, _)
SplitAt(text, sep, acc) ==
    IF Len(text) = 0 THEN <<acc>>
    ELSE IF SubSeq(text, 1, 1) = sep
         THEN <<acc>> \o SplitAt(Drop(text, 1), sep, "")
         ELSE SplitAt(Drop(text, 1), sep, acc \o SubSeq(text, 1, 1))

Split(text, sep) == SplitAt(text, sep, "")

\* the rows of an exported table: the lines after the header line of a CSV
\* (each line ends in a newline), the lines of an XYZ (newline between lines)
Rows(d) ==
    LET lines == Split(d.data, "\n")
    IN  IF d.mime = "text/csv"
        THEN SubSeq(lines, 2, Len(lines) - 1)
        ELSE IF d.data = "" THEN <<>> ELSE lines

\* position of the last "." of a name, 0 if there is none
RECURSIVE LastDot(_, _)
LastDot(name, i) ==
    IF i = 0 THEN 0
    ELSE IF SubSeq(name, i, i) = "." THEN i ELSE LastDot(name, i - 1)

\* the name with its final extension replaced
SwapExtension(name, ext) ==
    LET d == LastDot(name, Len(name))
    IN  (IF d = 0 THEN name ELSE Take(name, d - 1)) \o ext

ExtensionOf(fmt) == IF fmt = "CSV" THEN ".csv" ELSE ".xyz"

\* the error text names a missing LAZ backend
BackendPhrase(text) ==
    \E ph \in {"No LazBackend", "cannot decompress", "LazBackend"} :
        Contains(text, ph)

\* the block reported the missing backend and offered the install
BackendOutcome(block) ==
    /\ Showed(block, "error", "LAZ backend not available")
    /\ Showed(block, "write", "Install a LAZ backend")

\* the block reported the decoder's own error text and no missing backend
GenericOutcome(block, text) ==
    /\ Showed(block, "error", text)
    /\ ~Showed(block, "error", "LAZ backend not available")

-----------------------------------------------------------------------------
(* C1 *)

\* C1: on the URL path, whenever the response has a status other than 200,
\* the pass shows an error that reports the status code, offers no download,
\* and has not handed the body to the decoder.
C1_NonOkStatusNeverDecoded ==
    (Fetched /\ remote.status # 200) =>
        /\ Showed(ur, "error", "HTTP " \o ToString(remote.status))
        /\ ~ur.decoded
        /\ ~Offers(ur)

\* a 404 was fetched and reported
C1_Witness ==
    /\ Fetched /\ remote.status = 404
    /\ Showed(ur, "error", "HTTP 404") /\ ~ur.decoded

-----------------------------------------------------------------------------
(* C2 *)

\* the conditions as the claim words them: the first 8 bytes lower-cased,
\* the content-type as declared
C2_Suspicious(r) ==
    LET p == Lower(Take(r.data.head, 8))
    IN  \/ StartsWith(p, "<!do")
        \/ StartsWith(p, "<html")
        \/ StartsWith(p, "<?xml")
        \/ Contains(r.ct, "html")

\* C2: on the URL path, a status-200 response whose first 8 bytes, lower-cased,
\* start with "<!do", "<html" or "<?xml", or whose content-type contains
\* "html", is rejected with the unexpected-content error without the decoder
\* being invoked; the decoder is invoked only on responses with none of these.
C2_HtmlRejectedBeforeDecode ==
    /\ (Fetched /\ remote.status = 200 /\ C2_Suspicious(remote)) =>
           /\ Showed(ur, "error", "URL returned HTML")
           /\ ~ur.decoded
           /\ ~Offers(ur)
    /\ (Fetched /\ ur.decoded) => ~C2_Suspicious(remote)

\* an upper-case HTML page served with status 200 and a binary content-type
\* was rejected
C2_Witness ==
    /\ Fetched /\ remote.status = 200
    /\ remote.data.head = "<HTML>" /\ ~Contains(Lower(remote.ct), "html")
    /\ Showed(ur, "error", "URL returned HTML") /\ ~ur.decoded

-----------------------------------------------------------------------------
(* C3 *)

\* C3: when the fetch returns 401 the pass shows the credential hint (the URL
\* requires credentials or a presigned URL); for every other status that is
\* not 200 it shows the status code and the reason text.
C3_CredentialHintOn401 ==
    (Fetched /\ remote.status # 200) =>
        IF remote.status = 401
        THEN Showed(ur, "error", "requires credentials or a presigned URL")
        ELSE Showed(ur, "error", ToString(remote.status) \o ": " \o remote.reason)

-----------------------------------------------------------------------------
(* C4 *)

\* C4: for each source, when the decoder fails, an error text with a backend
\* phrase is shown as the missing-backend outcome with the install advice,
\* and any other error text as the generic error.
C4_BackendErrorsClassified ==
    /\ (up.decoded /\ ~UploadLas.ok) =>
           IF BackendPhrase(UploadLas.text)
           THEN BackendOutcome(up) /\ up.button
           ELSE GenericOutcome(up, UploadLas.text)
    /\ (Fetched /\ ur.decoded /\ ~UrlLas.ok) =>
           IF BackendPhrase(UrlLas.text)
           THEN BackendOutcome(ur)
           ELSE GenericOutcome(ur, UrlLas.text)

-----------------------------------------------------------------------------
(* C5 *)

\* the body is an HTML or XML page, or is declared as HTML (no letter case)
HtmlPage(r) ==
    \E p \in {"<!do", "<html", "<?xml"} :
        \/ StartsWith(Lower(Take(r.data.head, 8)), p)
        \/ Contains(Lower(r.ct), "html")

\* every step of the upload path succeeds on the selected file
UploadSound ==
    /\ uploaded_file # NoFile
    /\ UploadLas.ok
    /\ EqualLengths(UploadLas)

\* every step of the URL path succeeds on the entered URL
UrlSound ==
    /\ laz_url # ""
    /\ remote.raises = "" /\ remote.status = 200 /\ ~HtmlPage(remote)
    /\ UrlLas.ok
    /\ EqualLengths(UrlLas)

\* C5: in every pass and for each source, a download is offered exactly when
\* acquisition, decoding, the length check and serialization all succeeded;
\* when the source is present and a step failed, no download is offered and
\* an error message is shown; no exception leaves the pass.
C5_DownloadIffAllStepsSucceed ==
    /\ up.escaped = "" /\ ur.escaped = ""
    /\ Offers(up) <=> UploadSound
    /\ Offers(ur) <=> UrlSound
    /\ (uploaded_file # NoFile /\ ~UploadSound) =>
           \E i \in 1..Len(up.msgs) : up.msgs[i].w = "error"
    /\ (laz_url # "" /\ ~UrlSound) =>
           \E i \in 1..Len(ur.msgs) : ur.msgs[i].w = "error"

\* in one pass the upload failed with an error message while the URL source
\* was converted and offered
C5_Witness ==
    /\ uploaded_file # NoFile /\ ~Offers(up) /\ Showed(up, "error", "")
    /\ Offers(ur) /\ UrlSound

-----------------------------------------------------------------------------
(* C6 *)

\* C6: on both paths, when the decoded X, Y, Z do not have the same length
\* the pass shows the shape-mismatch error and offers no table; every table
\* offered has one row per entry of X, of Y and of Z.
C6_MismatchIsAnError ==
    /\ (up.decoded /\ UploadLas.ok) =>
           /\ ~EqualLengths(UploadLas) =>
                  /\ Showed(up, "error", "Coordinate arrays have mismatched lengths")
                  /\ ~Offers(up)
           /\ Offers(up) =>
                  /\ Len(Rows(up.download)) = Len(UploadLas.x)
                  /\ Len(Rows(up.download)) = Len(UploadLas.y)
                  /\ Len(Rows(up.download)) = Len(UploadLas.z)
    /\ (ur.decoded /\ UrlLas.ok) =>
           /\ ~EqualLengths(UrlLas) =>
                  /\ Showed(ur, "error", "Coordinate arrays have mismatched lengths")
                  /\ ~Offers(ur)
           /\ Offers(ur) =>
                  /\ Len(Rows(ur.download)) = Len(UrlLas.x)
                  /\ Len(Rows(ur.download)) = Len(UrlLas.y)
                  /\ Len(Rows(ur.download)) = Len(UrlLas.z)

\* an upload whose Z is one short of X and Y, and a URL file whose X is one
\* short, were both refused in one pass
C6_Witness ==
    /\ up.decoded /\ UploadLas.ok
    /\ Len(UploadLas.z) < Len(UploadLas.x) /\ Len(UploadLas.x) = Len(UploadLas.y)
    /\ Showed(up, "error", "Coordinate arrays have mismatched lengths")
    /\ ur.decoded /\ UrlLas.ok
    /\ Len(UrlLas.x) < Len(UrlLas.y)
    /\ Showed(ur, "error", "Coordinate arrays have mismatched lengths")

-----------------------------------------------------------------------------
(* C7 *)

\* C7: the file name offered for an upload is the uploaded name with only its
\* final extension replaced by ".csv" or ".xyz"; for a URL it is
\* "downloaded_file.csv" or "downloaded_file.xyz".
C7_OnlyFinalExtensionReplaced ==
    /\ Offers(up) =>
           up.download.file_name =
               SwapExtension(uploaded_file.name, ExtensionOf(output_format))
    /\ Offers(ur) =>
           ur.download.file_name =
               "downloaded_file" \o ExtensionOf(output_format)

-----------------------------------------------------------------------------
(* C8 *)

\* the i-th row of the table in the chosen format
RowOf(fmt, las, i) ==
    IF fmt = "CSV"
    THEN Repr(las.x[i]) \o "," \o Repr(las.y[i]) \o "," \o Repr(las.z[i])
    ELSE Fmt3(las.x[i]) \o " " \o Fmt3(las.y[i]) \o " " \o Fmt3(las.z[i])

\* the table holds the points of las, one row each, in their order
Faithful(d, fmt, las) ==
    /\ Len(Rows(d)) = Len(las.x)
    /\ \A i \in 1..Len(las.x) : Rows(d)[i] = RowOf(fmt, las, i)
    /\ IF fmt = "CSV"
       THEN /\ Split(d.data, "\n")[1] = "X,Y,Z"
            /\ Split(d.data, "\n")[Len(las.x) + 2] = ""
            /\ Len(las.x) = 0 => d.data = "X,Y,Z\n"
       ELSE /\ Len(las.x) > 0 => Split(d.data, "\n")[1] # "X,Y,Z"
            /\ Len(las.x) = 0 => d.data = ""

\* C8: for every point cloud of N >= 0 points the export succeeds and holds
\* one row per point in the decoder's order, nothing sorted or dropped: a
\* CSV is the header "X,Y,Z" and N rows, an XYZ is N lines and no header;
\* for N = 0 the CSV is the header line alone and the XYZ is empty.
C8_OneRowPerPointInOrder ==
    /\ (up.decoded /\ UploadLas.ok /\ EqualLengths(UploadLas)) =>
           Offers(up) /\ Faithful(up.download, output_format, UploadLas)
    /\ (ur.decoded /\ UrlLas.ok /\ EqualLengths(UrlLas)) =>
           Offers(ur) /\ Faithful(ur.download, output_format, UrlLas)

\* an empty cloud was exported as CSV from the upload, next to a URL file of
\* repeated points
C8_Witness ==
    /\ output_format = "CSV"
    /\ Offers(up) /\ Len(UploadLas.x) = 0 /\ up.download.data = "X,Y,Z\n"
    /\ Offers(ur) /\ remote.data.series = "B" /\ Len(Rows(ur.download)) = MaxPts

\* an empty cloud was exported as XYZ from the URL, next to an upload of
\* unsorted points
C8_WitnessXyz ==
    /\ output_format = "XYZ"
    /\ Offers(ur) /\ Len(UrlLas.x) = 0 /\ ur.download.data = ""
    /\ Offers(up) /\ uploaded_file.data.series = "A"
    /\ Len(Rows(up.download)) = MaxPts

-----------------------------------------------------------------------------
(* C9 *)

\* C9: the install command runs only in a pass in which the decode of the
\* upload failed with a backend error and which the press of the install
\* button started; it runs at most once in a pass, and a pass sends at most
\* one GET, and only for a URL that is entered.  (A pass follows a user
\* action: every step of Next is one.)
C9_InstallOnlyOnPress ==
    /\ up.installs \in {0, 1}
    /\ ur.gets \in {0, 1}
    /\ up.installs = 1 =>
           /\ pressed = "install"
           /\ up.decoded /\ ~UploadLas.ok /\ BackendPhrase(UploadLas.text)
    /\ ur.gets = 1 => laz_url # ""

\* the install ran and failed in a pass started by the install button
C9_Witness ==
    /\ up.installs = 1 /\ pressed = "install"
    /\ Showed(up, "error", "Installation failed")

-----------------------------------------------------------------------------
(* C10 *)

\* C10: the counter starts at 0, grows by exactly 1 in each pass that the
\* increment button started and is unchanged in every other pass, whatever
\* the upload and URL blocks do; it always equals the number of presses.
C10_CounterCountsPresses ==
    /\ [](counter = presses /\ shown = counter)
    /\ [][counter' = IF pressed' = "increment" THEN counter + 1 ELSE counter]_vars

\* after all the presses, a pass started by the install button converted a
\* URL file and left the counter alone
C10_Witness ==
    /\ counter = MaxPresses /\ pressed = "install"
    /\ up.decoded /\ Offers(ur)

====
